---- MODULE Spec2Model ----
(***************************************************************************)
(* AnomChatBot: the WhatsApp channel bridge and the conversation pipeline. *)
(*                                                                         *)
(*   src/src/whatsapp/whatsapp_bot_impl.py  WhatsAppBotImplementation      *)
(*   src/src/whatsapp/whatsapp_bot.py       WhatsAppBot                    *)
(*   src/src/conversation/conversation_manager.py  ConversationManager     *)
(*   src/src/database.py                    DatabaseManager                *)
(*   src/src/config.py                      Config                         *)
(*                                                                         *)
(* whatsapp_bot.py holds two interleaved revisions of WhatsAppBot: one     *)
(* that delegates to WhatsAppBotImplementation (USE_IMPLEMENTATION true)   *)
(* and a Selenium one with its own start, listener and handler; the        *)
(* definitions named Impl_ follow the former's delegate, those named Bot_  *)
(* the latter.                                                             *)
(*                                                                         *)
(* Floats are modelled as integers: tone and flirt levels in tenths        *)
(* (0.5 is 5), time.time() in whole seconds.                               *)
(***************************************************************************)
EXTENDS Integers, Sequences, FiniteSets, TLC

\* ------------------------------------------------------------------ bounds

\* Inbound events handed to handle_incoming_message in one behaviour.
MaxTurns == 3

\* Calls of set_pending_first_message in one behaviour.
MaxConfigs == 2

\* Config.max_conversation_history (MAX_CONVERSATION_HISTORY in the
\* environment, config.py:88); any positive value is a legal configuration.
max_conversation_history == 3

\* _check_rate_limit's literals, whatsapp_bot_impl.py:261-270. The hourly
\* window (3600 s in the code) and the cap per window (20 in the code) are
\* scaled down so that a window fills and expires within MaxClock seconds;
\* the minimum spacing is the code's 2 s. The cap can be reached inside one
\* window, as in the code (20 * 2 s < 3600 s).
CounterWindow == 5
MessagesPerWindow == 2
MinSpacing == 2

\* Seconds of time.time() a behaviour of the rate limiter covers.
MaxClock == 12

\* Listener tasks and the coroutine that calls start() first, in one
\* behaviour; get_unread() calls in one behaviour; times the transport loses
\* its login in one behaviour.
MaxTasks == 5
MaxPolls == 3
MaxDrops == 1

\* Admin commands (/start, /stop) in one behaviour.
MaxCalls == 2

\* Messages that direct add_message calls store in one behaviour.
MaxStored == 3

\* The login timeouts of the two start() methods (120 s in both:
\* whatsapp_bot_impl.py:99, whatsapp_bot.py:199), the sleep after a failed
\* reconnection (30 s, whatsapp_bot_impl.py:216) and the capacity of
\* last_message_ids (1000, whatsapp_bot.py:97), scaled down.
login_timeout == 3
max_wait == 4
ReconnectFailedSleep == 3
DedupCapacity == 1

\* Sleeps of the listeners, in seconds: between polls and login checks, and
\* after an exception or a lost connection.
poll_interval == 2
ErrorSleep == 5

\* ------------------------------------------------------------ value sets

\* Python's None, for strings; for a level (a float) that was not given.
NoneVal == "None"
NoLevel == 0 - 1

\* A Python dict as a function on its keys.
DictPut(d, k, v) == [x \in DOMAIN d \cup {k} |-> IF x = k THEN v ELSE d[x]]
DictDel(d, k) == [x \in DOMAIN d \ {k} |-> d[x]]
DictGet(d, k, default) == IF k \in DOMAIN d THEN d[k] ELSE default
EmptyDict == [x \in {} |-> NoneVal]
EmptyNumDict == [x \in {} |-> 0]

\* time.time() when the bridge is constructed, in seconds since 1970: the
\* model's clock counts from there, and .get(chat_id, 0) is EpochStart
\* seconds before it.
EpochStart == 1000000 + CounterWindow

Chats == {"c1", "c2"}

\* Inbound message texts.
Texts == {"moi", "kiitos"}

\* Operator-written first messages (non-empty strings).
FirstMessages == {"Hei"}

\* Custom system prompts an operator may give; NoneVal is "not given".
CustomPrompts == {NoneVal, "P1"}

\* Tone and flirt levels an operator gives, in tenths of 0.0 .. 1.0.
Levels == {0, 5}
FlirtLevels == {0}

\* Message.role (models.py:54).
\* Keys and values of the configured level tables, and the levels, in tenths.
MaxLevelKeys == 2
ToneKeys == {"professional", "friendly", "formal"}
FlirtKeys == {"none", "subtle"}
LevelValues == {0, 4}
ToneInputs == {2, 3}
FlirtInputs == {0, 2}
PromptInputs == {NoneVal, "", "P1"}

MessageRoles == {"user", "assistant", "system"}

\* The text the AI backend returns.
AiReply == "reply"

\* Message ids the transport reports as unread, the chat each is in, its
\* text, and what one get_unread() can return.
Events == {"m1", "m2"}
EventChat(e) == IF e = "m1" THEN "c1" ELSE "c2"
EventText(e) == "moi"
Batches == {<<>>, <<"m1">>, <<"m2">>, <<"m1", "m2">>}

\* What get_unread() can return when the transport holds the ids in `ids`.
Unread(ids) == {b \in Batches : \A i \in 1..Len(b) : b[i] \in ids}

\* --------------------------------------------------------------- state

VARIABLES
    \* import-time facts
    WEBWHATSAPI_AVAILABLE,  \* whatsapp_bot_impl.py:14-20
    USE_IMPLEMENTATION,     \* whatsapp_bot.py:37-42
    \* the configuration object
    tone_levels,            \* Config.tone_levels (config.py:101), in file order
    flirt_levels,           \* Config.flirt_levels (config.py:102), in file order
    \* the bot object
    is_running,             \* WhatsAppBotImplementation.is_running / WhatsAppBot.is_running
    client,                 \* self.client: NoneVal, "driver" (an open driver) or
                            \* "closed" (a driver after quit())
    _listener_task,         \* WhatsAppBot._listener_task: 0 (None) or a task
    is_authenticated,       \* WhatsAppBot.is_authenticated
    last_message_ids,       \* WhatsAppBot.last_message_ids, oldest first
    \* BotStatus row and the transport
    whatsapp_connected,     \* BotStatus.whatsapp_connected
    logged_in,              \* what client.is_logged_in() returns
    \* asyncio
    tasks,                  \* the coroutine that called start() first, then the
                            \* tasks made by asyncio.create_task, in creation order
    \* observation of the listeners
    shed,                   \* message ids that _check_rate_limit has rejected
    handed,                 \* per message id: handle_incoming_message calls for it
    fetched,                \* per message id: get_unread() calls that returned it
    polls,                  \* number of get_unread() calls so far
    inbox,                  \* the message ids the transport can report as unread
    calls,                  \* number of admin commands so far
    lastCall,               \* the last start() or stop() awaited by the admin
                            \* that returned, and what it left behind
    status_writer,          \* who wrote BotStatus.whatsapp_connected last
    drops,                  \* number of times the login was lost so far
    \* DatabaseManager
    conv,                   \* conversations table, by chat_id
    messages,               \* messages table, by chat_id, in insertion order
    \* ConversationManager
    pending_first_messages, \* self.pending_first_messages
    \* observation of the collaborators
    sent,                   \* per chat: what chat.send_message() transmitted
    ai_calls,               \* per chat: number of generate_response() calls
    requested,              \* per chat: settings last given to set_pending_first_message
    lastTurn,               \* what the last handle_incoming_message did
    turns,                  \* number of handle_incoming_message calls so far
    configs,                \* number of set_pending_first_message calls so far
    \* the rate limiter of WhatsAppBotImplementation
    now,                    \* time.time(), seconds since the bridge was constructed
    last_message_time,      \* self.last_message_time
    message_count,          \* self.message_count
    accepted,               \* per chat: when _check_rate_limit returned True,
                            \* within the last CounterWindow seconds
    lastCheck               \* the last _check_rate_limit call

pipeVars == <<conv, messages, pending_first_messages, sent, ai_calls, requested,
              lastTurn, turns, configs>>
importVars == <<WEBWHATSAPI_AVAILABLE, USE_IMPLEMENTATION, tone_levels, flirt_levels>>
botVars == <<is_running, client, is_authenticated, last_message_ids, _listener_task>>
statusVars == <<whatsapp_connected, status_writer>>
adminVars == <<drops, inbox, calls, lastCall>>
listenerVars == <<statusVars, logged_in, tasks, handed, shed, fetched, polls, adminVars>>
rateVars == <<now, last_message_time, message_count, accepted, lastCheck>>

vars == <<importVars, botVars, listenerVars, pipeVars, rateVars>>

\* ------------------------------------------------------- models.py rows

\* Conversation(...) column defaults, models.py:22-29; a chat without a row
\* is the same record with exists = FALSE.
NewConversation ==
    [exists |-> TRUE, first_message_sent |-> FALSE,
     pending_first_message |-> NoneVal, system_prompt |-> NoneVal,
     tone_level |-> 5, flirt_level |-> 0]

NoConversation == [NewConversation EXCEPT !.exists = FALSE]

\* ------------------------------------------------------------ config.py

\* conversation.tone_levels / flirt_levels of a config.yaml, in file order.
DefaultToneLevels ==
    << [key |-> "professional", value |-> 0],
       [key |-> "friendly", value |-> 5],
       [key |-> "casual", value |-> 10] >>

DefaultFlirtLevels ==
    << [key |-> "none", value |-> 0],
       [key |-> "subtle", value |-> 5],
       [key |-> "high", value |-> 10] >>

\* Keys that have a text in prompts.tone_modifiers / prompts.flirt_modifiers.
tone_modifiers == {"professional", "friendly", "casual"}
flirt_modifiers == {"subtle", "high"}

Abs(x) == IF x < 0 THEN -x ELSE x

\* float('inf'), as a value no distance takes.
Infinity == 0 - 1

\* Config._get_level_key: the first key whose value is strictly closer than
\* every key before it and at least as close as every key after it.
RECURSIVE LevelScan(_, _, _, _, _)
LevelScan(level, level_dict, i, closest_key, closest_diff) ==
    IF i > Len(level_dict) THEN closest_key
    ELSE LET diff == Abs(level_dict[i].value - level)
         IN  IF closest_diff = Infinity \/ diff < closest_diff
             THEN LevelScan(level, level_dict, i + 1, level_dict[i].key, diff)
             ELSE LevelScan(level, level_dict, i + 1, closest_key, closest_diff)

\* A scan that lets a later key of equal distance replace the earlier one.
RECURSIVE LevelScanLast(_, _, _, _, _)
LevelScanLast(level, level_dict, i, closest_key, closest_diff) ==
    IF i > Len(level_dict) THEN closest_key
    ELSE LET diff == Abs(level_dict[i].value - level)
         IN  IF closest_diff = Infinity \/ diff <= closest_diff
             THEN LevelScanLast(level, level_dict, i + 1, level_dict[i].key, diff)
             ELSE LevelScanLast(level, level_dict, i + 1, closest_key, closest_diff)

_get_level_key_last(level, level_dict) ==
    LevelScanLast(level, level_dict, 1, NoneVal, Infinity)

_get_level_key(level, level_dict) ==
    LevelScan(level, level_dict, 1, NoneVal, Infinity)

\* Config.get_system_prompt: the prompt as the sequence of its parts.
get_system_prompt(tone_level, flirt_level, custom_prompt) ==
    IF custom_prompt # NoneVal /\ custom_prompt # "" THEN <<custom_prompt>>
    ELSE LET tone_key == _get_level_key(tone_level, tone_levels)
             flirt_key == _get_level_key(flirt_level, flirt_levels)
             tone_part == IF tone_key # NoneVal /\ tone_key \in tone_modifiers
                          THEN <<tone_key>> ELSE <<>>
             flirt_part == IF flirt_key # NoneVal /\ flirt_key \in flirt_modifiers
                           THEN <<flirt_key>> ELSE <<>>
         IN  <<"base">> \o tone_part \o flirt_part

\* ---------------------------------------------------------- database.py

get_or_create_conversation(cv, chat_id) ==
    IF cv[chat_id].exists THEN cv ELSE [cv EXCEPT ![chat_id] = NewConversation]

\* A None argument leaves the column alone; a missing row is skipped silently.
update_conversation_settings(cv, chat_id, system_prompt, tone_level, flirt_level) ==
    IF cv[chat_id].exists
    THEN [cv EXCEPT
            ![chat_id].system_prompt = IF system_prompt # NoneVal THEN system_prompt ELSE @,
            ![chat_id].tone_level = IF tone_level # NoLevel THEN tone_level ELSE @,
            ![chat_id].flirt_level = IF flirt_level # NoLevel THEN flirt_level ELSE @]
    ELSE cv

mark_first_message_sent(cv, chat_id) ==
    IF cv[chat_id].exists
    THEN [cv EXCEPT ![chat_id].first_message_sent = TRUE]
    ELSE cv

\* Mutant of add_message: the row is added to the session but never
\* committed.
add_message_uncommitted(ms, chat_id, role, content) == ms

\* Message.created_at: datetime.utcnow() when the row is made, as its rank
\* among the readings taken for the conversation. Every add_message is a
\* committed transaction, so the reading is later than that of every message
\* the conversation already has.
utcnow(rows) == IF rows = <<>> THEN 1 ELSE rows[Len(rows)].created_at + 1

\* ms[chat_id] holds the rows of the conversation in the order of insertion.
add_message(ms, chat_id, role, content) ==
    [ms EXCEPT ![chat_id] = Append(@, [role |-> role, content |-> content,
                                       created_at |-> utcnow(@)])]

\* order_by(desc(Message.created_at))
RECURSIVE OrderByDescCreatedAt(_)
OrderByDescCreatedAt(rows) ==
    IF rows = <<>> THEN <<>>
    ELSE LET i == CHOOSE i \in 1..Len(rows) :
                      \A j \in 1..Len(rows) : rows[i].created_at >= rows[j].created_at
         IN  <<rows[i]>> \o OrderByDescCreatedAt(SubSeq(rows, 1, i - 1)
                                                  \o SubSeq(rows, i + 1, Len(rows)))

\* order_by(Message.created_at): the oldest rows first.
RECURSIVE OrderByCreatedAt(_)
OrderByCreatedAt(rows) ==
    IF rows = <<>> THEN <<>>
    ELSE LET i == CHOOSE i \in 1..Len(rows) :
                      \A j \in 1..Len(rows) : rows[i].created_at <= rows[j].created_at
         IN  <<rows[i]>> \o OrderByCreatedAt(SubSeq(rows, 1, i - 1)
                                              \o SubSeq(rows, i + 1, Len(rows)))

\* .limit(limit)
Limit(rows, limit) == SubSeq(rows, 1, IF Len(rows) < limit THEN Len(rows) ELSE limit)

\* list(reversed(messages))
Reversed(rows) == [i \in 1..Len(rows) |-> rows[Len(rows) + 1 - i]]

\* A query that sorts in ascending order and so keeps the oldest rows.
get_conversation_history_oldest(cv, ms, chat_id, limit) ==
    IF ~cv[chat_id].exists THEN <<>>
    ELSE Limit(OrderByCreatedAt(ms[chat_id]), limit)

\* The `limit` newest messages of the chat, oldest first.
get_conversation_history(cv, ms, chat_id, limit) ==
    IF ~cv[chat_id].exists THEN <<>>
    ELSE Reversed(Limit(OrderByDescCreatedAt(ms[chat_id]), limit))

\* ------------------------------------------------ conversation_manager.py

NotSystem(msg) == msg.role # "system"

\* The history handed to the AI as it is, without the filter of lines
\* 313-315 (what the removal of 'system' entries is compared against).
_format_history_unfiltered(history) ==
    [i \in 1..Len(history) |->
        [role |-> history[i].role, content |-> history[i].content]]

\* {"role": msg.role, "content": msg.content or ""} of every entry whose
\* role is not 'system'.
_format_history_for_ai(history) ==
    LET kept == SelectSeq(history, NotSystem)
    IN  [i \in 1..Len(kept) |->
            [role |-> kept[i].role, content |-> kept[i].content]]

get_pending_first_message(chat_id) ==
    IF chat_id \in DOMAIN pending_first_messages
    THEN pending_first_messages[chat_id].message
    ELSE NoneVal

clear_pending_first_message(pf, chat_id) ==
    IF chat_id \in DOMAIN pf THEN DictDel(pf, chat_id) ELSE pf

\* Mutant of process_incoming_message: the first_message_sent check of
\* lines 185-188 is missing.
process_incoming_message_ungated(cv, ms, chat_id, message_text, ai_outcome) ==
    LET conversation == cv[chat_id]
        ms1 == add_message(ms, chat_id, "user", message_text)
        history == get_conversation_history(cv, ms1, chat_id, max_conversation_history)
        system_prompt == get_system_prompt(conversation.tone_level,
                                           conversation.flirt_level,
                                           conversation.system_prompt)
        failed == ai_outcome = "raise"
    IN  [ms |-> IF failed THEN ms1 ELSE add_message(ms1, chat_id, "assistant", AiReply),
         response |-> IF failed THEN NoneVal ELSE AiReply,
         ai_called |-> TRUE, ai_raised |-> failed, ai_prompt |-> system_prompt,
         ai_input |-> _format_history_for_ai(history)]

\* process_incoming_message if the reply were returned without the
\* add_message(role='assistant') of lines 243-249 (what the persistence of a
\* reply before its dispatch is compared against).
process_incoming_message_unstored(cv, ms, chat_id, message_text, ai_outcome) ==
    LET conversation == cv[chat_id]
        nothing == [ms |-> ms, response |-> NoneVal, ai_called |-> FALSE,
                    ai_raised |-> FALSE, ai_prompt |-> <<>>, ai_input |-> <<>>]
    IN  IF ~conversation.exists THEN nothing
        ELSE IF ~conversation.first_message_sent THEN nothing
        ELSE LET ms1 == add_message(ms, chat_id, "user", message_text)
                 history == get_conversation_history(cv, ms1, chat_id,
                                                     max_conversation_history)
                 input == _format_history_for_ai(history)
                 system_prompt == get_system_prompt(conversation.tone_level,
                                                    conversation.flirt_level,
                                                    conversation.system_prompt)
             IN  [ms |-> ms1,
                  response |-> IF ai_outcome = "raise" THEN NoneVal ELSE AiReply,
                  ai_called |-> TRUE, ai_raised |-> ai_outcome = "raise",
                  ai_prompt |-> system_prompt, ai_input |-> input]

\* ConversationManager.process_incoming_message on the tables (cv, ms): the
\* tables after the call, the value returned, and what was asked of the AI
\* backend. ai_outcome is what generate_response does if it is reached:
\* "ok" or "raise".
process_incoming_message(cv, ms, chat_id, message_text, ai_outcome) ==
    LET conversation == cv[chat_id]
        nothing == [ms |-> ms, response |-> NoneVal, ai_called |-> FALSE,
                    ai_raised |-> FALSE, ai_prompt |-> <<>>, ai_input |-> <<>>]
    IN  IF ~conversation.exists THEN nothing
        ELSE IF ~conversation.first_message_sent THEN nothing
        ELSE LET ms1 == add_message(ms, chat_id, "user", message_text)
                 history == get_conversation_history(cv, ms1, chat_id,
                                                     max_conversation_history)
                 input == _format_history_for_ai(history)
                 system_prompt == get_system_prompt(conversation.tone_level,
                                                    conversation.flirt_level,
                                                    conversation.system_prompt)
             IN  IF ai_outcome = "raise"
                 THEN [ms |-> ms1, response |-> NoneVal, ai_called |-> TRUE,
                       ai_raised |-> TRUE, ai_prompt |-> system_prompt,
                       ai_input |-> input]
                 ELSE [ms |-> add_message(ms1, chat_id, "assistant", AiReply),
                       response |-> AiReply, ai_called |-> TRUE,
                       ai_raised |-> FALSE, ai_prompt |-> system_prompt,
                       ai_input |-> input]

\* ConversationManager.set_pending_first_message (levels are within 0..1, so
\* the ValueError branches are not taken), with configure_conversation.
set_pending_first_message(chat_id, message, system_prompt, tone_level, flirt_level) ==
    /\ pending_first_messages' =
         DictPut(pending_first_messages, chat_id,
                 [message |-> message, system_prompt |-> system_prompt,
                  tone_level |-> tone_level, flirt_level |-> flirt_level])
    /\ conv' = update_conversation_settings(conv, chat_id, system_prompt,
                                            tone_level, flirt_level)
    /\ requested' = DictPut(requested, chat_id,
                            [system_prompt |-> system_prompt, tone_level |-> tone_level,
                             flirt_level |-> flirt_level])
    /\ UNCHANGED <<messages, sent, ai_calls, lastTurn, turns>>

\* --------------------------------------------------- whatsapp_bot_impl.py

\* The record kept of one handle_incoming_message call: its inputs, the
\* state it found, what it asked of the AI backend and the transport, and
\* the state it left.
NoSettings == [system_prompt |-> NoneVal, tone_level |-> NoLevel,
               flirt_level |-> NoLevel]

NoTurn == [chat |-> NoneVal, text |-> NoneVal, pending_before |-> NoneVal,
           fms_before |-> FALSE, msgs_before |-> 0, settings |-> NoSettings,
           ai_called |-> FALSE, ai_raised |-> FALSE, ai_prompt |-> <<>>,
           ai_input |-> <<>>, response |-> NoneVal, transmitted |-> <<>>,
           send |-> NoneVal, fms_after |-> FALSE, pending_after |-> FALSE]

TurnDone(turn, cv, pf, send, transmitted) ==
    [turn EXCEPT !.send = send, !.transmitted = transmitted,
                 !.fms_after = cv[turn.chat].first_message_sent,
                 !.pending_after = turn.chat \in DOMAIN pf]

\* What the transport does with a send once a driver is asked.
TransportOutcomes == {"sent", "chat_not_found", "raised"}

\* WhatsAppBotImplementation.send_message: "simulated" and "chat_not_found"
\* return normally without transmitting, "raised" re-raises, "sent"
\* transmitted the text.
Impl_send_message(transport) ==
    IF ~WEBWHATSAPI_AVAILABLE \/ client = NoneVal THEN "simulated" ELSE transport

\* What a call of send_message can do, and what generate_response can do.
SendResults == {Impl_send_message(transport) : transport \in TransportOutcomes}
AiOutcomes == {"ok", "raise"}

\* A handler that marks the first message as sent whatever send_message did.
mark_despite_raise(cv, chat_id, send) == mark_first_message_sent(cv, chat_id)

\* Lines 335-336: mark_first_message_sent runs when send_message returned;
\* an exception of send_message leaves the try block before it.
mark_after_send(cv, chat_id, send) ==
    IF send = "raised" THEN cv ELSE mark_first_message_sent(cv, chat_id)

\* WhatsAppBotImplementation.handle_incoming_message(chat_id, message_text).
Impl_handle_incoming_message(chat_id, message_text) ==
    LET cv1 == get_or_create_conversation(conv, chat_id)
        pending_first == get_pending_first_message(chat_id)
        turn == [NoTurn EXCEPT
                   !.chat = chat_id, !.text = message_text,
                   !.pending_before = pending_first,
                   !.fms_before = conv[chat_id].first_message_sent,
                   !.msgs_before = Len(messages[chat_id]),
                   !.settings = IF chat_id \in DOMAIN requested
                                THEN requested[chat_id] ELSE NoSettings]
    IN  IF pending_first # NoneVal
        THEN \E send \in SendResults :
             IF send = "raised"
             THEN \* the exception leaves send_message; caught at line 355
                  /\ conv' = mark_after_send(cv1, chat_id, send)
                  /\ lastTurn' = TurnDone(turn, conv', pending_first_messages, send, <<>>)
                  /\ UNCHANGED <<messages, pending_first_messages, sent, ai_calls>>
             ELSE /\ conv' = mark_after_send(cv1, chat_id, send)
                  /\ pending_first_messages' =
                        clear_pending_first_message(pending_first_messages, chat_id)
                  /\ sent' = IF send = "sent"
                             THEN [sent EXCEPT ![chat_id] =
                                     Append(@, [kind |-> "first", text |-> pending_first])]
                             ELSE sent
                  /\ lastTurn' = TurnDone(turn, conv', pending_first_messages', send,
                                       IF send = "sent" THEN <<pending_first>> ELSE <<>>)
                  /\ UNCHANGED <<messages, ai_calls>>
        ELSE \E r \in {process_incoming_message(cv1, messages, chat_id,
                                                message_text, o) : o \in AiOutcomes} :
             \E send \in IF r.response # NoneVal THEN SendResults ELSE {NoneVal} :
             LET delivered == send = "sent"
             IN  /\ conv' = cv1
                 /\ messages' = r.ms
                 /\ ai_calls' = IF r.ai_called
                                THEN [ai_calls EXCEPT ![chat_id] = @ + 1]
                                ELSE ai_calls
                 /\ sent' = IF delivered
                            THEN [sent EXCEPT ![chat_id] =
                                    Append(@, [kind |-> "ai", text |-> r.response])]
                            ELSE sent
                 /\ lastTurn' = TurnDone([turn EXCEPT !.ai_called = r.ai_called,
                                                        !.ai_raised = r.ai_raised,
                                                        !.ai_prompt = r.ai_prompt,
                                                        !.ai_input = r.ai_input,
                                                        !.response = r.response],
                                       cv1, pending_first_messages, send,
                                       IF delivered THEN <<r.response>> ELSE <<>>)
                 /\ UNCHANGED pending_first_messages

\* ------------------------------------------------------------- actions

\* _check_rate_limit without the minimum-spacing test of lines 269-272.
_check_rate_limit_unspaced(mc, lt, chat_id, current_time) ==
    LET reset == \/ chat_id \notin DOMAIN mc
                 \/ current_time - DictGet(lt, chat_id, 0 - EpochStart) > CounterWindow
        mc1 == IF reset THEN DictPut(mc, chat_id, 0) ELSE mc
        lt1 == IF reset THEN DictPut(lt, chat_id, current_time) ELSE lt
    IN  IF mc1[chat_id] >= MessagesPerWindow
        THEN [ok |-> FALSE, mc |-> mc1, lt |-> lt1, reset |-> reset]
        ELSE [ok |-> TRUE, mc |-> DictPut(mc1, chat_id, mc1[chat_id] + 1),
              lt |-> DictPut(lt1, chat_id, current_time), reset |-> reset]

\* WhatsAppBotImplementation._check_rate_limit at current_time, on the two
\* dicts: the value returned and the dicts after the call.
_check_rate_limit(mc, lt, chat_id, current_time) ==
    LET reset == \/ chat_id \notin DOMAIN mc
                 \/ current_time - DictGet(lt, chat_id, 0 - EpochStart) > CounterWindow
        mc1 == IF reset THEN DictPut(mc, chat_id, 0) ELSE mc
        lt1 == IF reset THEN DictPut(lt, chat_id, current_time) ELSE lt
    IN  IF mc1[chat_id] >= MessagesPerWindow
        THEN [ok |-> FALSE, mc |-> mc1, lt |-> lt1, reset |-> reset]
        ELSE IF current_time - DictGet(lt1, chat_id, 0 - EpochStart) < MinSpacing
        THEN [ok |-> FALSE, mc |-> mc1, lt |-> lt1, reset |-> reset]
        ELSE [ok |-> TRUE, mc |-> DictPut(mc1, chat_id, mc1[chat_id] + 1),
              lt |-> DictPut(lt1, chat_id, current_time), reset |-> reset]

\* The accept times still within a window of `current_time`.
Recent(times, current_time) ==
    SelectSeq(times, LAMBDA t : current_time - t <= CounterWindow)

\* WhatsAppBotImplementation._process_message for a text message: the rate
\* check, then handle_incoming_message.
Impl_process_message(chat_id, message_text) ==
    LET r == _check_rate_limit(message_count, last_message_time, chat_id, now)
    IN  /\ message_count' = r.mc
        /\ last_message_time' = r.lt
        /\ accepted' = [c \in Chats |->
                          Recent(IF c = chat_id /\ r.ok
                                 THEN Append(accepted[c], now) ELSE accepted[c], now)]
        /\ lastCheck' = [chat |-> chat_id, ok |-> r.ok, reset |-> r.reset,
                         counted |-> r.mc[chat_id] - (IF r.ok THEN 1 ELSE 0),
                         since_accept |-> IF accepted[chat_id] = <<>> THEN Infinity
                                          ELSE now - accepted[chat_id][Len(accepted[chat_id])]]
        /\ now' = now
        /\ IF r.ok
           THEN /\ Impl_handle_incoming_message(chat_id, message_text)
                /\ UNCHANGED <<requested, configs, turns>>
           ELSE UNCHANGED pipeVars

\* ------------------------------------------------- session and listeners

\* WhatsAppBot.send_message (whatsapp_bot.py:509-530): without a client or
\* unauthenticated it logs and returns; an unknown chat is logged; an
\* exception is re-raised.
Bot_send_message(transport) ==
    IF client = NoneVal \/ ~is_authenticated THEN "not_authenticated" ELSE transport

\* WhatsAppBot.handle_incoming_message (whatsapp_bot.py:453-496). With a
\* pending first message, line 464 awaits the str that the plain method
\* get_pending_first_message returns: a TypeError, caught at line 495.
Bot_handle_incoming_message(chat_id, message_text) ==
    LET cv1 == get_or_create_conversation(conv, chat_id)
        pending_first == get_pending_first_message(chat_id)
        turn == [NoTurn EXCEPT
                   !.chat = chat_id, !.text = message_text,
                   !.pending_before = pending_first,
                   !.fms_before = conv[chat_id].first_message_sent,
                   !.msgs_before = Len(messages[chat_id]),
                   !.settings = IF chat_id \in DOMAIN requested
                                THEN requested[chat_id] ELSE NoSettings]
    IN  IF pending_first # NoneVal
        THEN /\ conv' = cv1
             /\ lastTurn' = TurnDone(turn, cv1, pending_first_messages, NoneVal, <<>>)
             /\ UNCHANGED <<messages, pending_first_messages, sent, ai_calls>>
        ELSE \E r \in {process_incoming_message(cv1, messages, chat_id,
                                                message_text, o) : o \in AiOutcomes} :
             \E send \in IF r.response # NoneVal
                         THEN {Bot_send_message(transport) :
                                 transport \in TransportOutcomes}
                         ELSE {NoneVal} :
             /\ conv' = cv1
             /\ messages' = r.ms
             /\ ai_calls' = IF r.ai_called
                            THEN [ai_calls EXCEPT ![chat_id] = @ + 1]
                            ELSE ai_calls
             /\ sent' = IF send = "sent"
                        THEN [sent EXCEPT ![chat_id] =
                                Append(@, [kind |-> "ai", text |-> r.response])]
                        ELSE sent
             /\ lastTurn' = TurnDone([turn EXCEPT !.ai_called = r.ai_called,
                                                    !.ai_raised = r.ai_raised,
                                                    !.ai_prompt = r.ai_prompt,
                                                    !.ai_input = r.ai_input,
                                                    !.response = r.response],
                                   cv1, pending_first_messages, send,
                                   IF send = "sent" THEN <<r.response>> ELSE <<>>)
             /\ UNCHANGED pending_first_messages

\* A coroutine: the caller of start() ("main") or a _message_listener task.
\*   pc      where it is suspended
\*   wake    time.time() before which its asyncio.sleep does not return
\*   waited  start(): start_time (whatsapp_bot_impl.py:100) or wait_time
\*           (whatsapp_bot.py:200)
\*   batch   the rest of the unread messages of the current poll cycle
\*   lost    the task saw is_logged_in() return False while the bot was running
\*   failed  the task's last get_unread() raised and the task has not seen
\*           is_logged_in() return False since
NewTask(kind, pc) ==
    [kind |-> kind, pc |-> pc, wake |-> 0, waited |-> 0, batch |-> <<>>,
     lost |-> FALSE, failed |-> FALSE]

\* asyncio.create_task(self._message_listener()), n times.
RECURSIVE create_task(_, _)
create_task(ts, n) ==
    IF n = 0 THEN ts ELSE create_task(Append(ts, NewTask("listener", "new")), n - 1)

\* Task t is suspended at pc and, if asleep, has slept its time.
At(t, pc) == tasks[t].pc = pc /\ now >= tasks[t].wake

\* deque(maxlen=DedupCapacity).append
deque_append(d, x) ==
    IF Len(d) >= DedupCapacity THEN Append(Tail(d), x) ELSE Append(d, x)

InDeque(d, x) == \E i \in 1..Len(d) : d[i] = x

\* is_connected() of the class in use (whatsapp_bot_impl.py:419-427,
\* whatsapp_bot.py:574-578); is_logged_in() raises on a driver after quit().
is_connected ==
    IF ~USE_IMPLEMENTATION THEN is_running
    ELSE IF ~WEBWHATSAPI_AVAILABLE \/ client = NoneVal THEN is_running
    ELSE IF client = "closed" THEN FALSE
    ELSE is_running /\ logged_in

NoCall == [op |-> NoneVal, ok |-> FALSE, is_running |-> FALSE, is_connected |-> FALSE,
           listeners |-> 0]

\* The coroutines created by create_task that have not ended.
Live(ts) == {u \in 1..Len(ts) : ts[u].kind = "listener"
                                /\ ts[u].pc \notin {"done", "crashed", "cancelled"}}

\* Step of coroutine t: if it is the admin's and its start() has returned in
\* this step, what the admin finds.
StartReturns(t) ==
    lastCall' = IF tasks[t].kind = "main" /\ tasks'[t].pc \in {"started", "failed"}
                THEN [op |-> "start", ok |-> tasks'[t].pc = "started",
                      is_running |-> is_running', is_connected |-> is_connected',
                      listeners |-> Cardinality(Live(tasks'))]
                ELSE lastCall

\* self.db.update_bot_status(whatsapp_connected=v), called from `who`.
SetStatus(v, who) ==
    /\ whatsapp_connected' = v
    /\ status_writer' = who

\* start() returns to the coroutine that awaited it: the first caller is
\* done; _message_listener of WhatsAppBotImplementation goes on with its
\* loop, after sleeping if start() raised (whatsapp_bot_impl.py:212-216).
Impl_returned(task, ok) ==
    IF task.kind = "main"
    THEN [task EXCEPT !.pc = IF ok THEN "started" ELSE "failed", !.waited = 0]
    ELSE [task EXCEPT !.pc = "poll", !.waited = 0,
                      !.wake = IF ok THEN 0 ELSE now + ReconnectFailedSleep]

\* WhatsAppBotImplementation.start up to its login loop
\* (whatsapp_bot_impl.py:69-101).
Impl_start(t) ==
    /\ USE_IMPLEMENTATION
    /\ At(t, "start")
    /\ IF ~WEBWHATSAPI_AVAILABLE
       THEN /\ is_running' = TRUE
            /\ SetStatus(TRUE, "start")
            /\ tasks' = [tasks EXCEPT ![t] = Impl_returned(@, TRUE)]
            /\ UNCHANGED client
       ELSE /\ client' = "driver"
            /\ tasks' = [tasks EXCEPT ![t] = [@ EXCEPT !.pc = "login_wait",
                                                        !.waited = now]]
            /\ UNCHANGED <<is_running, statusVars>>
    /\ UNCHANGED <<importVars, is_authenticated, last_message_ids, _listener_task,
                   logged_in,
                   handed, shed, fetched, polls, drops, inbox, calls, pipeVars, rateVars>>
    /\ StartReturns(t)

\* The login loop without the test of login_timeout at line 103 (what the
\* bound on the wait is compared against).
Impl_login_wait_untimed(t) ==
    /\ USE_IMPLEMENTATION
    /\ At(t, "login_wait")
    /\ IF client = "driver" /\ logged_in
       THEN /\ Len(tasks) < MaxTasks
            /\ is_running' = TRUE
            /\ SetStatus(TRUE, "start")
            /\ tasks' = create_task([tasks EXCEPT ![t] = Impl_returned(@, TRUE)], 1)
       ELSE /\ tasks' = [tasks EXCEPT ![t] = [@ EXCEPT !.wake = now + poll_interval]]
            /\ UNCHANGED <<is_running, statusVars>>
    /\ UNCHANGED <<importVars, client, is_authenticated, last_message_ids,
                   _listener_task, logged_in,
                   handed, shed, fetched, polls, drops, inbox, calls, pipeVars, rateVars>>
    /\ StartReturns(t)

\* One pass of the login loop of WhatsAppBotImplementation.start and what
\* follows it (whatsapp_bot_impl.py:102-119).
Impl_login_wait(t) ==
    /\ USE_IMPLEMENTATION
    /\ At(t, "login_wait")
    /\ IF client = "driver" /\ logged_in
       THEN /\ Len(tasks) < MaxTasks
            /\ is_running' = TRUE
            /\ SetStatus(TRUE, "start")
            /\ tasks' = create_task([tasks EXCEPT ![t] = Impl_returned(@, TRUE)], 1)
       ELSE IF client = "closed" \/ now - tasks[t].waited > login_timeout
       THEN \* is_logged_in() raised on a driver after quit(), or TimeoutError;
            \* the except at 116 records the status and re-raises
            /\ SetStatus(FALSE, "start")
            /\ tasks' = [tasks EXCEPT ![t] = Impl_returned(@, FALSE)]
            /\ UNCHANGED is_running
       ELSE /\ tasks' = [tasks EXCEPT ![t] = [@ EXCEPT !.wake = now + poll_interval]]
            /\ UNCHANGED <<is_running, statusVars>>
    /\ UNCHANGED <<importVars, client, is_authenticated, last_message_ids,
                   _listener_task, logged_in,
                   handed, shed, fetched, polls, drops, inbox, calls, pipeVars, rateVars>>
    /\ StartReturns(t)

\* WhatsAppBotImplementation._message_listener at the top of its loops
\* (whatsapp_bot_impl.py:173-186, 203-206): the simulation loop, the test of
\* is_running, and get_unread(), which returns a batch or raises.
Impl_listener_poll(t) ==
    /\ USE_IMPLEMENTATION
    /\ tasks[t].kind = "listener"
    /\ At(t, "new") \/ At(t, "poll") \/ At(t, "simulation")
    /\ IF \/ tasks[t].pc = "simulation"
          \/ tasks[t].pc = "new" /\ (~WEBWHATSAPI_AVAILABLE \/ client = NoneVal)
       THEN /\ tasks' = [tasks EXCEPT ![t] =
                           IF is_running
                           THEN [@ EXCEPT !.pc = "simulation", !.wake = now + 1]
                           ELSE [@ EXCEPT !.pc = "done", !.wake = 0]]
            /\ UNCHANGED <<fetched, polls>>
       ELSE IF ~is_running
       THEN /\ tasks' = [tasks EXCEPT ![t] = [@ EXCEPT !.pc = "done", !.wake = 0]]
            /\ UNCHANGED <<fetched, polls>>
       ELSE /\ polls < MaxPolls
            /\ polls' = polls + 1
            /\ \/ /\ tasks' = [tasks EXCEPT ![t] =
                                 [@ EXCEPT !.pc = "except", !.wake = now + ErrorSleep,
                                           !.failed = TRUE]]
                  /\ UNCHANGED fetched
               \/ \E batch \in Unread(inbox) :
                  /\ client = "driver"
                  /\ tasks' = [tasks EXCEPT ![t] =
                                 [@ EXCEPT !.pc = "process", !.wake = 0,
                                           !.batch = batch, !.failed = FALSE]]
                  /\ fetched' = [e \in Events |->
                                   IF InDeque(batch, e) THEN fetched[e] + 1
                                   ELSE fetched[e]]
    /\ UNCHANGED <<importVars, botVars, statusVars, logged_in, handed, shed, adminVars,
                   pipeVars, rateVars>>

\* _message_listener inside a poll cycle if neither _process_message (line
\* 252) nor handle_incoming_message (line 355) caught: a failed turn would
\* leave the for loops and reach the except clause of the listener.
Impl_listener_process_uncaught(t) ==
    /\ USE_IMPLEMENTATION
    /\ At(t, "process")
    /\ IF tasks[t].batch = <<>>
       THEN /\ tasks' = [tasks EXCEPT ![t] =
                           [@ EXCEPT !.pc = "poll", !.wake = now + poll_interval]]
            /\ UNCHANGED <<handed, shed, pipeVars, rateVars>>
       ELSE LET e == Head(tasks[t].batch)
                r == _check_rate_limit(message_count, last_message_time,
                                       EventChat(e), now)
            IN  /\ Impl_process_message(EventChat(e), EventText(e))
                /\ handed' = IF r.ok THEN [handed EXCEPT ![e] = @ + 1] ELSE handed
                /\ shed' = IF r.ok THEN shed ELSE shed \cup {e}
                /\ tasks' = [tasks EXCEPT ![t] =
                               IF r.ok /\ (lastTurn'.ai_raised \/ lastTurn'.send = "raised")
                               THEN [@ EXCEPT !.pc = "except", !.batch = <<>>,
                                              !.wake = now + ErrorSleep]
                               ELSE [@ EXCEPT !.batch = Tail(@)]]
    /\ UNCHANGED <<importVars, botVars, statusVars, logged_in, fetched, polls,
                   adminVars>>

\* WhatsAppBotImplementation._message_listener inside a poll cycle
\* (whatsapp_bot_impl.py:187-201): the next message of the batch goes to
\* _process_message; after the last one the task sleeps.
Impl_listener_process(t) ==
    /\ USE_IMPLEMENTATION
    /\ At(t, "process")
    /\ IF tasks[t].batch = <<>>
       THEN /\ tasks' = [tasks EXCEPT ![t] =
                           [@ EXCEPT !.pc = "poll", !.wake = now + poll_interval]]
            /\ UNCHANGED <<handed, shed, pipeVars, rateVars>>
       ELSE LET e == Head(tasks[t].batch)
                r == _check_rate_limit(message_count, last_message_time,
                                       EventChat(e), now)
            IN  /\ Impl_process_message(EventChat(e), EventText(e))
                /\ handed' = IF r.ok THEN [handed EXCEPT ![e] = @ + 1] ELSE handed
                /\ shed' = IF r.ok THEN shed ELSE shed \cup {e}
                /\ tasks' = [tasks EXCEPT ![t] = [@ EXCEPT !.batch = Tail(@)]]
    /\ UNCHANGED <<importVars, botVars, statusVars, logged_in, fetched, polls,
                   adminVars>>

\* WhatsAppBotImplementation._message_listener after the sleep of its except
\* clause (whatsapp_bot_impl.py:207-212): the liveness check and, when it
\* fails, the status write and the call of start().
Impl_listener_except(t) ==
    /\ USE_IMPLEMENTATION
    /\ At(t, "except")
    /\ IF client = "closed"
       THEN \* is_logged_in() raises inside the except clause: the task ends
            /\ tasks' = [tasks EXCEPT ![t] = [@ EXCEPT !.pc = "crashed", !.wake = 0]]
            /\ UNCHANGED statusVars
       ELSE IF ~logged_in
       THEN /\ SetStatus(FALSE, "_message_listener")
            /\ tasks' = [tasks EXCEPT ![t] =
                           [@ EXCEPT !.pc = "start", !.wake = 0, !.lost = TRUE,
                                     !.failed = FALSE]]
       ELSE /\ tasks' = [tasks EXCEPT ![t] = [@ EXCEPT !.pc = "poll", !.wake = 0]]
            /\ UNCHANGED statusVars
    /\ UNCHANGED <<importVars, botVars, logged_in, handed, shed, fetched, polls, adminVars,
                   pipeVars, rateVars>>

\* start() of WhatsAppBot returns to the coroutine that awaited it: the first
\* caller is done; _message_listener awaited it inside _on_disconnected,
\* which swallows its exception (whatsapp_bot.py:428-431), and then breaks
\* out of its loop (line 317).
Bot_returned(task, ok) ==
    IF task.kind = "main"
    THEN [task EXCEPT !.pc = IF ok THEN "started" ELSE "failed", !.waited = 0,
                      !.wake = 0]
    ELSE [task EXCEPT !.pc = "done", !.waited = 0, !.wake = 0]

\* The end of WhatsAppBot.start once is_logged_in() holds
\* (whatsapp_bot.py:189-192 or 221-224, then 228-238): two listener tasks.
Bot_started(t) ==
    /\ Len(tasks) + 2 <= MaxTasks
    /\ is_authenticated' = TRUE
    /\ SetStatus(TRUE, "start")
    /\ is_running' = TRUE
    /\ tasks' = create_task([tasks EXCEPT ![t] = Bot_returned(@, TRUE)], 2)
    /\ _listener_task' = Len(tasks) + 2

\* WhatsAppBot.start up to its login loop (whatsapp_bot.py:182-200).
Bot_start(t) ==
    /\ ~USE_IMPLEMENTATION
    /\ At(t, "start")
    /\ IF client = NoneVal
       THEN \* RuntimeError, re-raised at line 242
            /\ tasks' = [tasks EXCEPT ![t] = Bot_returned(@, FALSE)]
            /\ UNCHANGED <<is_authenticated, statusVars, is_running, _listener_task>>
       ELSE IF client = "closed"
       THEN \* is_logged_in() raised, re-raised at line 242
            /\ tasks' = [tasks EXCEPT ![t] = Bot_returned(@, FALSE)]
            /\ UNCHANGED <<is_authenticated, statusVars, is_running, _listener_task>>
       ELSE IF logged_in
       THEN Bot_started(t)
       ELSE /\ tasks' = [tasks EXCEPT ![t] = [@ EXCEPT !.pc = "login_wait",
                                                        !.waited = 0, !.wake = 0]]
            /\ UNCHANGED <<is_authenticated, statusVars, is_running, _listener_task>>
    /\ UNCHANGED <<importVars, client, last_message_ids, logged_in, handed, shed, fetched,
                   polls, drops, inbox, calls, pipeVars, rateVars>>
    /\ StartReturns(t)

\* One test of the login loop of WhatsAppBot.start and what follows it
\* (whatsapp_bot.py:202-226).
Bot_login_wait(t) ==
    /\ ~USE_IMPLEMENTATION
    /\ At(t, "login_wait")
    /\ IF client = "closed"
       THEN \* is_logged_in() raised, re-raised at line 242
            /\ tasks' = [tasks EXCEPT ![t] = Bot_returned(@, FALSE)]
            /\ UNCHANGED <<is_authenticated, statusVars, is_running, _listener_task>>
       ELSE IF ~logged_in /\ tasks[t].waited < max_wait
       THEN /\ tasks' = [tasks EXCEPT ![t] =
                           [@ EXCEPT !.wake = now + poll_interval,
                                     !.waited = @ + poll_interval]]
            /\ UNCHANGED <<is_authenticated, statusVars, is_running, _listener_task>>
       ELSE IF logged_in
       THEN Bot_started(t)
       ELSE \* TimeoutError, re-raised at line 242
            /\ tasks' = [tasks EXCEPT ![t] = Bot_returned(@, FALSE)]
            /\ UNCHANGED <<is_authenticated, statusVars, is_running, _listener_task>>
    /\ UNCHANGED <<importVars, client, last_message_ids, logged_in, handed, shed, fetched,
                   polls, drops, inbox, calls, pipeVars, rateVars>>
    /\ StartReturns(t)

\* WhatsAppBot._message_listener at the top of its loop
\* (whatsapp_bot.py:306-321, 342-345) and the first half of _on_disconnected
\* (416-425).
Bot_listener_poll(t) ==
    /\ ~USE_IMPLEMENTATION
    /\ tasks[t].kind = "listener"
    /\ At(t, "new") \/ At(t, "poll")
    /\ IF ~is_running
       THEN /\ tasks' = [tasks EXCEPT ![t] = [@ EXCEPT !.pc = "done", !.wake = 0]]
            /\ UNCHANGED <<is_authenticated, statusVars, fetched, polls>>
       ELSE IF client = NoneVal \/ ~is_authenticated
       THEN /\ tasks' = [tasks EXCEPT ![t] =
                           [@ EXCEPT !.pc = "poll", !.wake = now + poll_interval]]
            /\ UNCHANGED <<is_authenticated, statusVars, fetched, polls>>
       ELSE IF client = "closed"
       THEN \* is_logged_in() raised: the except at line 347 sleeps
            /\ tasks' = [tasks EXCEPT ![t] =
                           [@ EXCEPT !.pc = "poll", !.wake = now + ErrorSleep]]
            /\ UNCHANGED <<is_authenticated, statusVars, fetched, polls>>
       ELSE IF ~logged_in
       THEN /\ is_authenticated' = FALSE
            /\ SetStatus(FALSE, "_on_disconnected")
            /\ tasks' = [tasks EXCEPT ![t] =
                           [@ EXCEPT !.pc = "on_disconnected",
                                     !.wake = now + ErrorSleep, !.lost = TRUE,
                                     !.failed = FALSE]]
            /\ UNCHANGED <<fetched, polls>>
       ELSE /\ polls < MaxPolls
            /\ polls' = polls + 1
            /\ UNCHANGED <<is_authenticated, statusVars>>
            /\ \/ \* get_unread() raised: logged at line 343
                  /\ tasks' = [tasks EXCEPT ![t] =
                                 [@ EXCEPT !.pc = "poll", !.wake = now + poll_interval,
                                           !.failed = TRUE]]
                  /\ UNCHANGED fetched
               \/ \E batch \in Unread(inbox) :
                  /\ client = "driver"
                  /\ tasks' = [tasks EXCEPT ![t] =
                                 [@ EXCEPT !.pc = "process", !.wake = 0,
                                           !.batch = batch, !.failed = FALSE]]
                  /\ fetched' = [e \in Events |->
                                   IF InDeque(batch, e) THEN fetched[e] + 1
                                   ELSE fetched[e]]
    /\ UNCHANGED <<importVars, is_running, client, last_message_ids, _listener_task,
                   logged_in, handed, shed,
                   adminVars, pipeVars, rateVars>>

\* WhatsAppBot._process_message for a text message (whatsapp_bot.py:353-414).
Bot_process_message(chat_id, message_text) ==
    Bot_handle_incoming_message(chat_id, message_text)

\* WhatsAppBot._message_listener inside a poll cycle (whatsapp_bot.py:323-345):
\* a message whose id is in last_message_ids is skipped, any other id is
\* appended and the message goes to _process_message.
Bot_listener_process(t) ==
    /\ ~USE_IMPLEMENTATION
    /\ At(t, "process")
    /\ IF tasks[t].batch = <<>>
       THEN /\ tasks' = [tasks EXCEPT ![t] =
                           [@ EXCEPT !.pc = "poll", !.wake = now + poll_interval]]
            /\ UNCHANGED <<last_message_ids, handed, shed, pipeVars>>
       ELSE LET e == Head(tasks[t].batch)
            IN  /\ tasks' = [tasks EXCEPT ![t] = [@ EXCEPT !.batch = Tail(@)]]
                /\ IF InDeque(last_message_ids, e)
                   THEN UNCHANGED <<last_message_ids, handed, shed, pipeVars>>
                   ELSE /\ last_message_ids' = deque_append(last_message_ids, e)
                        /\ handed' = [handed EXCEPT ![e] = @ + 1]
                        /\ UNCHANGED shed
                        /\ Bot_process_message(EventChat(e), EventText(e))
                        /\ UNCHANGED <<requested, configs, turns>>
    /\ UNCHANGED <<importVars, is_running, client, is_authenticated, _listener_task,
                   statusVars, logged_in, fetched, polls, adminVars, rateVars>>

\* The second half of WhatsAppBot._on_disconnected (whatsapp_bot.py:427-431),
\* after its sleep: start() is awaited if the bot is still running; otherwise
\* the listener breaks out of its loop.
Bot_on_disconnected(t) ==
    /\ ~USE_IMPLEMENTATION
    /\ At(t, "on_disconnected")
    /\ tasks' = [tasks EXCEPT ![t] =
                   IF is_running THEN [@ EXCEPT !.pc = "start", !.wake = 0]
                   ELSE [@ EXCEPT !.pc = "done", !.wake = 0]]
    /\ UNCHANGED <<importVars, botVars, statusVars, logged_in, handed, shed, fetched,
                   polls, adminVars, pipeVars, rateVars>>

\* The admin's coroutine (TelegramBot's command handlers) is between
\* commands.
Idle == tasks[1].kind = "main" /\ tasks[1].pc \in {"idle", "started", "failed", "stopped"}

\* TelegramBot.cmd_start (telegram_bot.py:121-127): start() is awaited unless
\* the bot is running.
cmd_start ==
    /\ Idle
    /\ calls < MaxCalls
    /\ calls' = calls + 1
    /\ tasks' = IF is_running THEN tasks
                ELSE [tasks EXCEPT ![1] = [@ EXCEPT !.pc = "start", !.wake = 0]]
    /\ UNCHANGED <<drops, inbox, lastCall>>
    /\ UNCHANGED <<importVars, botVars, statusVars, logged_in, handed, shed, fetched, polls,
                   pipeVars, rateVars>>

\* TelegramBot.cmd_stop up to the first await inside stop()
\* (telegram_bot.py:151-154; whatsapp_bot_impl.py:121-132,
\* whatsapp_bot.py:263-268). If the bot is not running, stop() is skipped and
\* cmd_stop writes the status itself (telegram_bot.py:157-160).
cmd_stop ==
    /\ Idle
    /\ calls < MaxCalls
    /\ calls' = calls + 1
    /\ IF ~is_running
       THEN /\ SetStatus(FALSE, "cmd_stop")
            /\ tasks' = [tasks EXCEPT ![1] = [@ EXCEPT !.pc = "stopped", !.wake = 0]]
            /\ UNCHANGED <<is_running, client>>
       ELSE /\ is_running' = FALSE
            /\ client' = IF USE_IMPLEMENTATION /\ client # NoneVal /\ WEBWHATSAPI_AVAILABLE
                         THEN "closed" ELSE client
            /\ tasks' = [tasks EXCEPT ![1] =
                           [@ EXCEPT !.pc = "stopping",
                                     !.wake = IF USE_IMPLEMENTATION THEN 0
                                              ELSE now + poll_interval]]
            /\ UNCHANGED statusVars
    /\ UNCHANGED <<drops, inbox, lastCall>>
    /\ UNCHANGED <<importVars, is_authenticated, last_message_ids, _listener_task,
                   logged_in, handed, shed, fetched, polls, pipeVars, rateVars>>

\* asyncio.Task.cancel() on task u of ts, if there is such a task and it has
\* not ended.
cancel(ts, u) ==
    IF u \in 1..Len(ts) /\ ts[u].pc \notin {"done", "crashed", "cancelled"}
    THEN [ts EXCEPT ![u] = [@ EXCEPT !.pc = "cancelled", !.wake = 0, !.batch = <<>>]]
    ELSE ts

\* The rest of stop(): WhatsAppBotImplementation.stop writes the status
\* (whatsapp_bot_impl.py:132); WhatsAppBot.stop, after its sleep, quits the
\* driver, cancels _listener_task and writes the status
\* (whatsapp_bot.py:271-289).
stop_returns ==
    /\ At(1, "stopping")
    /\ tasks[1].kind = "main"
    /\ SetStatus(FALSE, "stop")
    /\ client' = IF ~USE_IMPLEMENTATION /\ client # NoneVal THEN "closed" ELSE client
    /\ tasks' = [(IF USE_IMPLEMENTATION THEN tasks ELSE cancel(tasks, _listener_task))
                   EXCEPT ![1] = [@ EXCEPT !.pc = "stop_returned", !.wake = 0]]
    /\ UNCHANGED <<drops, inbox, calls>>
    /\ UNCHANGED <<importVars, is_running, is_authenticated, last_message_ids,
                   _listener_task, logged_in, handed, shed, fetched, polls, pipeVars, rateVars>>
    /\ lastCall' = [op |-> "stop", ok |-> TRUE, is_running |-> is_running',
                    is_connected |-> is_connected',
                    listeners |-> Cardinality(Live(tasks'))]

\* The end of TelegramBot.cmd_stop: its own status write
\* (telegram_bot.py:157-160).
cmd_stop_done ==
    /\ At(1, "stop_returned")
    /\ tasks[1].kind = "main"
    /\ SetStatus(FALSE, "cmd_stop")
    /\ tasks' = [tasks EXCEPT ![1] = [@ EXCEPT !.pc = "stopped"]]
    /\ UNCHANGED <<importVars, botVars, logged_in, handed, shed, fetched, polls, adminVars,
                   pipeVars, rateVars>>

\* time.time() advances to the end of the asyncio.sleep that ends next.
Elapse ==
    \E t \in 1..Len(tasks) :
        /\ tasks[t].wake > now
        /\ tasks[t].wake <= MaxClock
        /\ \A u \in 1..Len(tasks) : tasks[u].wake > now => tasks[u].wake >= tasks[t].wake
        /\ now' = tasks[t].wake
        /\ accepted' = [c \in Chats |-> Recent(accepted[c], tasks[t].wake)]
        /\ UNCHANGED <<last_message_time, message_count, lastCheck>>
        /\ UNCHANGED <<importVars, botVars, listenerVars, pipeVars>>

\* The transport loses its login (the phone logs the session out, the page
\* reloads), and gets it back (the QR code is scanned, the page recovers).
Disconnect ==
    /\ logged_in
    /\ drops < MaxDrops
    /\ logged_in' = FALSE
    /\ drops' = drops + 1
    /\ UNCHANGED <<inbox, calls, lastCall>>
    /\ UNCHANGED <<importVars, botVars, statusVars, tasks, handed, shed, fetched,
                   polls, pipeVars, rateVars>>

Login ==
    /\ ~logged_in
    /\ logged_in' = TRUE
    /\ UNCHANGED <<importVars, botVars, statusVars, tasks, handed, shed, fetched,
                   polls, adminVars, pipeVars, rateVars>>

\* The operator configures a chat (examples/setup_conversation.py, the admin
\* console).
SetPendingFirstMessage ==
    \E chat_id \in Chats, message \in FirstMessages, system_prompt \in CustomPrompts,
       tone_level \in Levels, flirt_level \in FlirtLevels :
        /\ configs < MaxConfigs
        /\ configs' = configs + 1
        /\ set_pending_first_message(chat_id, message, system_prompt, tone_level,
                                     flirt_level)
        /\ UNCHANGED <<importVars, botVars, listenerVars, rateVars>>

\* One inbound event reaches handle_incoming_message.
HandleIncomingMessage ==
    \E chat_id \in Chats, message_text \in Texts :
        /\ turns < MaxTurns
        /\ turns' = turns + 1
        /\ Impl_handle_incoming_message(chat_id, message_text)
        /\ UNCHANGED <<requested, configs, importVars, botVars, listenerVars, rateVars>>

\* DatabaseManager.add_message called directly (database.py:145-188) for a
\* chat that has a Conversation row; without one it raises ValueError and
\* stores nothing.
AddMessage ==
    \E chat_id \in Chats, role \in MessageRoles, content \in Texts :
        /\ Len(messages["c1"]) + Len(messages["c2"]) < MaxStored
        /\ conv[chat_id].exists
        /\ messages' = add_message(messages, chat_id, role, content)
        /\ UNCHANGED <<conv, pending_first_messages, sent, ai_calls, requested,
                       lastTurn, turns, configs>>
        /\ UNCHANGED <<importVars, botVars, listenerVars, rateVars>>

\* time.time() advances by one second.
Tick ==
    /\ now + 1 <= MaxClock
    /\ now' = now + 1
    /\ accepted' = [c \in Chats |-> Recent(accepted[c], now + 1)]
    /\ UNCHANGED <<last_message_time, message_count, lastCheck>>
    /\ UNCHANGED <<importVars, botVars, listenerVars, pipeVars>>

\* The listener hands one unread text message to _process_message.
ProcessMessage ==
    \E chat_id \in Chats, message_text \in Texts :
        /\ Impl_process_message(chat_id, message_text)
        /\ UNCHANGED <<importVars, botVars, listenerVars>>

\* ------------------------------------------------------- specifications

\* The level tables of the configuration file in use.
InitConfig ==
    /\ tone_levels = DefaultToneLevels
    /\ flirt_levels = DefaultFlirtLevels


InitPipe ==
    /\ conv = [c \in Chats |-> NoConversation]
    /\ messages = [c \in Chats |-> <<>>]
    /\ pending_first_messages = EmptyDict
    /\ sent = [c \in Chats |-> <<>>]
    /\ ai_calls = [c \in Chats |-> 0]
    /\ requested = EmptyDict
    /\ lastTurn = NoTurn
    /\ turns = 0
    /\ configs = 0

NoCheck == [chat |-> NoneVal, ok |-> FALSE, reset |-> FALSE, counted |-> 0,
            since_accept |-> Infinity]

InitRate ==
    /\ now = 0
    /\ last_message_time = EmptyNumDict
    /\ message_count = EmptyNumDict
    /\ accepted = [c \in Chats |-> <<>>]
    /\ lastCheck = NoCheck

\* No coroutine of the bridge is running: the pipeline and the rate limiter
\* are driven directly.
InitNoTasks ==
    /\ is_authenticated = FALSE
    /\ last_message_ids = <<>>
    /\ _listener_task = 0
    /\ whatsapp_connected = is_running
    /\ logged_in = (client # NoneVal)
    /\ tasks = <<>>
    /\ handed = [e \in Events |-> 0]
    /\ shed = {}
    /\ fetched = [e \in Events |-> 0]
    /\ polls = 0
    /\ drops = 0
    /\ inbox = {}
    /\ calls = 0
    /\ lastCall = NoCall
    /\ status_writer = NoneVal

\* The pipeline of a bridge that is either freshly constructed (no driver) or
\* started with a driver.
InitPipeline ==
    /\ InitConfig
    /\ USE_IMPLEMENTATION = TRUE
    /\ \/ WEBWHATSAPI_AVAILABLE = TRUE /\ is_running = TRUE /\ client = "driver"
       \/ WEBWHATSAPI_AVAILABLE = TRUE /\ is_running = FALSE /\ client = NoneVal
       \/ WEBWHATSAPI_AVAILABLE = FALSE /\ is_running \in BOOLEAN /\ client = NoneVal
    /\ InitNoTasks
    /\ InitPipe
    /\ InitRate

NextPipeline == SetPendingFirstMessage \/ HandleIncomingMessage

\* The process ends and main.py builds its objects again on the same
\* database: a new ConversationManager and a new bot, started in the mode it
\* ran in before. The rows of the database stay as they are.
Restart ==
    /\ pending_first_messages # EmptyDict
    /\ pending_first_messages' = EmptyDict
    /\ last_message_time' = EmptyNumDict
    /\ message_count' = EmptyNumDict
    /\ UNCHANGED <<conv, messages, sent, ai_calls, requested, lastTurn, turns, configs>>
    /\ UNCHANGED <<now, accepted, lastCheck>>
    /\ UNCHANGED <<importVars, botVars, listenerVars>>

NextRestart == SetPendingFirstMessage \/ HandleIncomingMessage \/ Restart

SpecRestart == InitPipeline /\ [][NextRestart]_vars

SpecPipeline == InitPipeline /\ [][NextPipeline]_vars

\* The store and the pipeline of a bridge constructed over the database of an
\* earlier run in which the first message of chat c1 was sent (the pending
\* branch of handle_incoming_message stores no message): messages of any
\* role are added directly and inbound events take the AI path.
InitHistory ==
    /\ InitConfig
    /\ USE_IMPLEMENTATION = TRUE
    /\ WEBWHATSAPI_AVAILABLE = TRUE /\ is_running = TRUE /\ client = "driver"
    /\ InitNoTasks
    /\ conv = [c \in Chats |->
                 IF c = "c1" THEN [NewConversation EXCEPT !.first_message_sent = TRUE]
                 ELSE NoConversation]
    /\ messages = [c \in Chats |-> <<>>]
    /\ pending_first_messages = EmptyDict
    /\ sent = [c \in Chats |-> <<>>]
    /\ ai_calls = [c \in Chats |-> 0]
    /\ requested = EmptyDict
    /\ lastTurn = NoTurn
    /\ turns = 0
    /\ configs = 0
    /\ InitRate

\* Level tables a configuration file can hold: up to MaxLevelKeys entries
\* with distinct keys, in any order, with values from LevelValues.
LevelTablesOf(keys) ==
    {t \in UNION {[1..n -> [key : keys, value : LevelValues]] : n \in 0..MaxLevelKeys} :
        \A i, j \in 1..Len(t) : i # j => t[i].key # t[j].key}

\* A configuration file with any level tables, and the conversation c1 of an
\* earlier run with any levels and any custom prompt, its gate open.
InitPrompt ==
    /\ tone_levels \in LevelTablesOf(ToneKeys)
    /\ flirt_levels \in LevelTablesOf(FlirtKeys)
    /\ USE_IMPLEMENTATION = TRUE
    /\ WEBWHATSAPI_AVAILABLE = TRUE /\ is_running = TRUE /\ client = "driver"
    /\ InitNoTasks
    /\ \E tone_level \in ToneInputs, flirt_level \in FlirtInputs,
          system_prompt \in PromptInputs :
            conv = [c \in Chats |->
                      IF c = "c1"
                      THEN [exists |-> TRUE, first_message_sent |-> TRUE,
                            pending_first_message |-> NoneVal,
                            system_prompt |-> system_prompt,
                            tone_level |-> tone_level, flirt_level |-> flirt_level]
                      ELSE NoConversation]
    /\ messages = [c \in Chats |-> <<>>]
    /\ pending_first_messages = EmptyDict
    /\ sent = [c \in Chats |-> <<>>]
    /\ ai_calls = [c \in Chats |-> 0]
    /\ requested = EmptyDict
    /\ lastTurn = NoTurn
    /\ turns = 0
    /\ configs = 0
    /\ InitRate

\* One inbound event is handled.
NextPrompt == turns = 0 /\ HandleIncomingMessage

SpecPrompt == InitPrompt /\ [][NextPrompt]_vars

\* Messages are added directly at any time; one inbound event is handled.
NextHistory ==
    \/ AddMessage
    \/ turns = 0 /\ HandleIncomingMessage

SpecHistory == InitHistory /\ [][NextHistory]_vars

\* The rate limiter of a started bridge, with inbound text messages at any
\* times.
InitRateLimiter ==
    /\ InitConfig
    /\ USE_IMPLEMENTATION = TRUE
    /\ WEBWHATSAPI_AVAILABLE = TRUE /\ is_running = TRUE /\ client = "driver"
    /\ InitNoTasks
    /\ InitPipe
    /\ InitRate

NextRateLimiter == Tick \/ ProcessMessage

SpecRateLimiter == InitRateLimiter /\ [][NextRateLimiter]_vars

\* The bridge after construction and initialize(), with either class (only
\* WhatsAppBot.initialize makes a driver, whatsapp_bot.py:127-156), the
\* transport logged in from a saved profile or not.
InitBridge ==
    /\ InitConfig
    /\ USE_IMPLEMENTATION \in BOOLEAN
    /\ is_running = FALSE
    /\ client = IF ~USE_IMPLEMENTATION /\ WEBWHATSAPI_AVAILABLE THEN "driver" ELSE NoneVal
    /\ is_authenticated = FALSE
    /\ last_message_ids = <<>>
    /\ _listener_task = 0
    /\ whatsapp_connected = FALSE
    /\ logged_in \in BOOLEAN
    /\ handed = [e \in Events |-> 0]
    /\ shed = {}
    /\ fetched = [e \in Events |-> 0]
    /\ polls = 0
    /\ drops = 0
    /\ calls = 0
    /\ lastCall = NoCall
    /\ status_writer = NoneVal
    /\ InitPipe
    /\ InitRate

\* The bridge while start() is awaited for the first time, with the transport
\* library installed and inbound traffic.
InitListener ==
    /\ WEBWHATSAPI_AVAILABLE = TRUE
    /\ inbox = Events
    /\ tasks = <<NewTask("main", "start")>>
    /\ InitBridge

TaskIds == 1..MaxTasks

NextListener ==
    \/ \E t \in TaskIds : t <= Len(tasks) /\ Impl_start(t)
    \/ \E t \in TaskIds : t <= Len(tasks) /\ Impl_login_wait(t)
    \/ \E t \in TaskIds : t <= Len(tasks) /\ Impl_listener_poll(t)
    \/ \E t \in TaskIds : t <= Len(tasks) /\ Impl_listener_process(t)
    \/ \E t \in TaskIds : t <= Len(tasks) /\ Impl_listener_except(t)
    \/ \E t \in TaskIds : t <= Len(tasks) /\ Bot_start(t)
    \/ \E t \in TaskIds : t <= Len(tasks) /\ Bot_login_wait(t)
    \/ \E t \in TaskIds : t <= Len(tasks) /\ Bot_listener_poll(t)
    \/ \E t \in TaskIds : t <= Len(tasks) /\ Bot_listener_process(t)
    \/ \E t \in TaskIds : t <= Len(tasks) /\ Bot_on_disconnected(t)
    \/ Disconnect
    \/ Login
    \/ Elapse

SpecListener == InitListener /\ [][NextListener]_vars

\* The bridge after construction and initialize(), not started, with no
\* inbound traffic: the session under the admin's /start and /stop, with or
\* without the transport library.
InitSession ==
    /\ WEBWHATSAPI_AVAILABLE \in BOOLEAN
    /\ inbox = {}
    /\ tasks = <<NewTask("main", "idle")>>
    /\ InitBridge

NextSession ==
    \/ cmd_start
    \/ cmd_stop
    \/ stop_returns
    \/ cmd_stop_done
    \/ \E t \in TaskIds : t <= Len(tasks) /\ Impl_start(t)
    \/ \E t \in TaskIds : t <= Len(tasks) /\ Impl_login_wait(t)
    \/ \E t \in TaskIds : t <= Len(tasks) /\ Impl_listener_poll(t)
    \/ \E t \in TaskIds : t <= Len(tasks) /\ Impl_listener_process(t)
    \/ \E t \in TaskIds : t <= Len(tasks) /\ Impl_listener_except(t)
    \/ \E t \in TaskIds : t <= Len(tasks) /\ Bot_start(t)
    \/ \E t \in TaskIds : t <= Len(tasks) /\ Bot_login_wait(t)
    \/ \E t \in TaskIds : t <= Len(tasks) /\ Bot_listener_poll(t)
    \/ \E t \in TaskIds : t <= Len(tasks) /\ Bot_listener_process(t)
    \/ \E t \in TaskIds : t <= Len(tasks) /\ Bot_on_disconnected(t)
    \/ Disconnect
    \/ Login
    \/ Elapse

SpecSession == InitSession /\ [][NextSession]_vars

\* The admin's /start on a bridge that is not running and the listeners
\* that a successful start() creates, with no inbound messages and no /stop:
\* the login loops of both classes, entered by the admin and by reconnecting
\* listeners, against a transport that logs in or not.
NextAuthentication ==
    \/ cmd_start
    \/ \E t \in TaskIds : t <= Len(tasks) /\ Impl_start(t)
    \/ \E t \in TaskIds : t <= Len(tasks) /\ Impl_login_wait(t)
    \/ \E t \in TaskIds : t <= Len(tasks) /\ Impl_listener_poll(t)
    \/ \E t \in TaskIds : t <= Len(tasks) /\ Impl_listener_process(t)
    \/ \E t \in TaskIds : t <= Len(tasks) /\ Impl_listener_except(t)
    \/ \E t \in TaskIds : t <= Len(tasks) /\ Bot_start(t)
    \/ \E t \in TaskIds : t <= Len(tasks) /\ Bot_login_wait(t)
    \/ \E t \in TaskIds : t <= Len(tasks) /\ Bot_listener_poll(t)
    \/ \E t \in TaskIds : t <= Len(tasks) /\ Bot_listener_process(t)
    \/ \E t \in TaskIds : t <= Len(tasks) /\ Bot_on_disconnected(t)
    \/ Disconnect
    \/ Login
    \/ Elapse

SpecAuthentication == InitSession /\ [][NextAuthentication]_vars

\* The implementation's listener with inbound traffic for two chats, after
\* the operator has called set_pending_first_message for chat c1 on the
\* freshly constructed bridge (as examples/setup_conversation.py does): the
\* turns of c1 send the first message and then call the AI; sends and AI
\* calls fail or succeed.
InitIsolation ==
    /\ InitConfig
    /\ USE_IMPLEMENTATION = TRUE
    /\ WEBWHATSAPI_AVAILABLE = TRUE
    /\ is_running = FALSE
    /\ client = NoneVal
    /\ is_authenticated = FALSE
    /\ last_message_ids = <<>>
    /\ _listener_task = 0
    /\ whatsapp_connected = FALSE
    /\ logged_in \in BOOLEAN
    /\ handed = [e \in Events |-> 0]
    /\ shed = {}
    /\ fetched = [e \in Events |-> 0]
    /\ polls = 0
    /\ drops = 0
    /\ calls = 0
    /\ lastCall = NoCall
    /\ status_writer = NoneVal
    /\ inbox = Events
    /\ tasks = <<NewTask("main", "start")>>
    /\ \E message \in FirstMessages :
          pending_first_messages =
              DictPut(EmptyDict, "c1",
                      [message |-> message, system_prompt |-> NoneVal,
                       tone_level |-> NoLevel, flirt_level |-> NoLevel])
    /\ conv = update_conversation_settings([c \in Chats |-> NoConversation], "c1",
                                           NoneVal, NoLevel, NoLevel)
    /\ requested = DictPut(EmptyDict, "c1", NoSettings)
    /\ messages = [c \in Chats |-> <<>>]
    /\ sent = [c \in Chats |-> <<>>]
    /\ ai_calls = [c \in Chats |-> 0]
    /\ lastTurn = NoTurn
    /\ turns = 0
    /\ configs = 1
    /\ InitRate

NextIsolation ==
    \/ \E t \in TaskIds : t <= Len(tasks) /\ Impl_start(t)
    \/ \E t \in TaskIds : t <= Len(tasks) /\ Impl_login_wait(t)
    \/ \E t \in TaskIds : t <= Len(tasks) /\ Impl_listener_poll(t)
    \/ \E t \in TaskIds : t <= Len(tasks) /\ Impl_listener_process(t)
    \/ \E t \in TaskIds : t <= Len(tasks) /\ Impl_listener_except(t)
    \/ Login
    \/ Elapse

SpecIsolation == InitIsolation /\ [][NextIsolation]_vars

\* ---------------------------------------------------------------- claims

Roles(ms) == [i \in 1..Len(ms) |-> ms[i].role]
CountRole(ms, role) == Cardinality({i \in 1..Len(ms) : ms[i].role = role})
Turned == lastTurn.chat # NoneVal

\* C1 (first-message gating): while a conversation's first_message_sent is
\* false, generate_response has never been called for that chat and its
\* history holds no message with role 'assistant', whatever inbound events
\* were handled.
C1_FirstMessageGating ==
    \A c \in Chats :
        ~conv[c].first_message_sent =>
            /\ ai_calls[c] = 0
            /\ CountRole(messages[c], "assistant") = 0

\* C1 witness: two inbound events were handled, the last for a chat that has a
\* row, no pending first message, and first_message_sent still false.
C1_Witness ==
    /\ Turned /\ turns >= 2
    /\ conv[lastTurn.chat].exists
    /\ ~lastTurn.fms_before /\ lastTurn.pending_before = NoneVal
    /\ ~conv[lastTurn.chat].first_message_sent

\* C2 (gate discharge), as claimed: an inbound event handled for a chat with a
\* pending first message M and first_message_sent false transmits exactly M,
\* once, leaves first_message_sent true and the pending slot empty, and makes
\* no AI call.
C2_GateDischarge ==
    (Turned /\ lastTurn.pending_before # NoneVal /\ ~lastTurn.fms_before) =>
        /\ lastTurn.transmitted = <<lastTurn.pending_before>>
        /\ lastTurn.fms_after
        /\ ~lastTurn.pending_after
        /\ ~lastTurn.ai_called

\* C3 (no automated reply before the opening message), as claimed:
\* first_message_sent is true only if the chat's pending first message was
\* transmitted, and every AI reply transmitted to a chat comes after a
\* transmitted first message.
C3_OpeningMessagePrecedesReplies ==
    \A c \in Chats :
        /\ conv[c].first_message_sent =>
              \E i \in 1..Len(sent[c]) : sent[c][i].kind = "first"
        /\ \A i \in 1..Len(sent[c]) :
              sent[c][i].kind = "ai" =>
                  \E j \in 1..(i - 1) : sent[c][j].kind = "first"

\* C4 (dedup idempotence), as claimed: a message id that get_unread()
\* returned in two or more poll cycles has been handed to
\* handle_incoming_message at most once.
C4_DedupIdempotence ==
    \A e \in Events : fetched[e] >= 2 => handed[e] <= 1

\* C11 (single listener), as claimed: at every moment at most one
\* _message_listener task of the bridge has not ended, after a successful
\* start(), after reconnections made from inside a listener, and after the
\* admin's /stop followed by /start.
C11_SingleListener ==
    USE_IMPLEMENTATION => Cardinality(Live(tasks)) <= 1

\* C12 (Terminated is final), as claimed: once stop() has returned and the
\* admin has not called start() since, is_running is false and stays false:
\* no listener's reconnection path starts the bridge again.
C12_TerminatedIsFinal ==
    (USE_IMPLEMENTATION /\ lastCall.op = "stop"
        /\ tasks[1].pc \in {"stop_returned", "stopped"})
        => ~is_running

\* C13 (status queries), as claimed: is_connected() is false before any
\* start(); when a start() returns successfully is_connected() is true; when
\* a stop() returns is_running and is_connected() are false; for every
\* sequence of start and stop calls of the admin.
C13_StatusQueries ==
    /\ (lastCall.op = NoneVal /\ tasks[1].pc = "idle") => ~is_connected
    /\ (lastCall.op = "start" /\ lastCall.ok) => lastCall.is_connected
    /\ (USE_IMPLEMENTATION /\ lastCall.op = "stop")
          => ~lastCall.is_running /\ ~lastCall.is_connected

\* C14 (bounded authentication): a start() that waits for the login never
\* sleeps past login_timeout (max_wait) plus one polling step after it began;
\* and when the admin's start() has failed, is_running is false, the stored
\* status is not connected and no listener task exists.
C14_BoundedAuthentication ==
    /\ \A t \in 1..Len(tasks) :
          tasks[t].pc = "login_wait" =>
              IF USE_IMPLEMENTATION
              THEN tasks[t].wake - tasks[t].waited <= login_timeout + poll_interval
              ELSE tasks[t].waited < max_wait + poll_interval
    /\ (lastCall.op = "start" /\ ~lastCall.ok) =>
          /\ ~is_running
          /\ ~whatsapp_connected
          /\ Live(tasks) = {}

\* A start() of each class has waited for the login until the timeout and
\* failed.
C14_Witness ==
    /\ lastCall.op = "start" /\ ~lastCall.ok
    /\ tasks[1].pc = "failed"
    /\ client = "driver"
    /\ now >= (IF USE_IMPLEMENTATION THEN login_timeout ELSE max_wait)

\* C15 (reconnection is retried), as claimed: whenever the bridge is running
\* and its session is Disconnected (WhatsAppBot has cleared is_authenticated),
\* a reconnection attempt is pending: some listener is in the backoff of
\* _on_disconnected, in the start() it awaits, or in that start()'s login
\* wait. A failed attempt is thus followed by a further one.
C15_ReconnectionRetried ==
    (~USE_IMPLEMENTATION /\ is_running /\ ~is_authenticated) =>
        \E t \in 1..Len(tasks) :
            /\ tasks[t].kind = "listener"
            /\ tasks[t].pc \in {"on_disconnected", "start", "login_wait"}

\* C16 (at most once per lifetime), as claimed: WhatsAppBot's listener, which
\* records processed ids in last_message_ids, hands every inbound event id to
\* _process_message at most once, however many distinct events arrive between
\* two deliveries of the same id.
C16_AtMostOncePerLifetime ==
    ~USE_IMPLEMENTATION => \A e \in Events : handed[e] <= 1

\* C17 (shedding is final), as claimed: a message that _check_rate_limit has
\* rejected is never handed to handle_incoming_message in a later step, even
\* when get_unread() returns it again.
C17_ShedForGood ==
    [][\A e \in shed : handed'[e] = handed[e]]_vars

\* C18 (channel unavailable is signalled), as claimed: a call of send_message
\* that transmits nothing, because there is no client or the chat cannot be
\* reached, does not return normally: it raises to handle_incoming_message.
C18_UnavailableSignalled ==
    (lastTurn.send # NoneVal /\ lastTurn.transmitted = <<>>)
        => lastTurn.send = "raised"

\* C19 (single writer of the status), as claimed: the stored flag
\* whatsapp_connected is written only by the session manager's transitions:
\* start(), stop(), and the listeners' handling of a lost session.
C19_StatusSingleWriter ==
    status_writer \in {NoneVal, "start", "stop", "_message_listener",
                       "_on_disconnected"}

C21_FetchErrorDisconnects ==
    [][\A t \in 1..Len(tasks) :
          (tasks[t].failed /\ tasks[t].pc \in {"new", "poll"})
              => ~(polls' = polls + 1 /\ tasks'[t] # tasks[t])]_vars

\* C22 (counter window), as claimed: the counter of a chat is reset once
\* CounterWindow seconds have passed since the first event it counted, so an
\* event that keeps the minimum spacing is rejected by the cap only if
\* MessagesPerWindow accepted events of its chat lie within the last
\* CounterWindow seconds.
C22_WindowFromFirstCounted ==
    (lastCheck.chat # NoneVal /\ ~lastCheck.ok
        /\ lastCheck.since_accept >= MinSpacing
        /\ lastCheck.counted >= MessagesPerWindow)
        => Len(accepted[lastCheck.chat]) >= MessagesPerWindow

\* C23 (pending message only before the first message), as claimed: a turn
\* that finds a pending first message for a chat whose first_message_sent is
\* already true takes the AI path and does not send the pending text.
C23_PendingOnlyWhenUnsent ==
    (lastTurn.chat # NoneVal /\ lastTurn.fms_before
        /\ lastTurn.pending_before # NoneVal)
        => /\ lastTurn.ai_called
           /\ lastTurn.transmitted # <<lastTurn.pending_before>>

\* C24 (one live driver), as claimed: WhatsAppBotImplementation.start creates
\* a driver only when the bridge holds no driver that has not been quit, and
\* a start() that fails leaves no such driver behind.
C24_OneLiveDriver ==
    [][USE_IMPLEMENTATION =>
         \A t \in 1..Len(tasks) :
             /\ (tasks[t].pc = "start" /\ tasks'[t].pc = "login_wait")
                    => client # "driver"
             /\ (tasks[t].pc = "login_wait" /\ tasks'[t].pc = "failed")
                    => client' # "driver"]_vars

\* C25 (reply persisted before dispatch): in a turn that hands an AI reply to
\* send_message, the reply is the last message of the chat's history, with
\* role 'assistant', after the turn's 'user' message, whether the send
\* transmits it, finds no chat or raises; a send that does not transmit
\* leaves it there and transmits nothing. No chat has more AI replies
\* transmitted than 'assistant' messages stored.
C25_ReplyPersistedBeforeDispatch ==
    /\ (Turned /\ lastTurn.response # NoneVal) =>
          LET c == lastTurn.chat
              ms == messages[c]
          IN  /\ lastTurn.send # NoneVal
              /\ Len(ms) = lastTurn.msgs_before + 2
              /\ ms[Len(ms)].role = "assistant"
              /\ ms[Len(ms)].content = lastTurn.response
              /\ ms[Len(ms) - 1].role = "user"
              /\ ms[Len(ms) - 1].content = lastTurn.text
              /\ lastTurn.transmitted = IF lastTurn.send = "sent"
                                        THEN <<lastTurn.response>> ELSE <<>>
    /\ \A c \in Chats :
          Cardinality({i \in 1..Len(sent[c]) : sent[c][i].kind = "ai"})
              <= CountRole(messages[c], "assistant")

\* An AI reply was stored and its send raised.
C25_Witness ==
    /\ Turned /\ lastTurn.response # NoneVal
    /\ lastTurn.send = "raised"
    /\ CountRole(messages[lastTurn.chat], "assistant") >= 1

\* C26 (model input): the messages handed to generate_response in a turn are
\* the stored messages of the chat up to and including the turn's inbound
\* message, restricted to the last max_conversation_history of them, without
\* the entries of role 'system', in stored order; the inbound message is the
\* last element.
C26_ModelInput ==
    (Turned /\ lastTurn.ai_called) =>
        LET ms == messages[lastTurn.chat]
            k == lastTurn.msgs_before + 1
            first == IF k > max_conversation_history
                     THEN k - max_conversation_history + 1 ELSE 1
            idx == {i \in first..k : ms[i].role # "system"}
            input == lastTurn.ai_input
            nth(j) == CHOOSE i \in idx : Cardinality({x \in idx : x <= i}) = j
        IN  /\ Len(input) = Cardinality(idx)
            /\ \A j \in 1..Len(input) :
                  input[j] = [role |-> ms[nth(j)].role, content |-> ms[nth(j)].content]
            /\ input # <<>>
            /\ input[Len(input)] = [role |-> "user", content |-> lastTurn.text]

\* An AI call for a chat that has more stored messages than
\* max_conversation_history, a 'system' message among the most recent ones
\* and another one that is too old.
C26_Witness ==
    /\ Turned /\ lastTurn.ai_called
    /\ lastTurn.msgs_before + 1 > max_conversation_history
    /\ messages[lastTurn.chat][lastTurn.msgs_before].role = "system"
    /\ messages[lastTurn.chat][1].role = "system"
    /\ Len(lastTurn.ai_input) = max_conversation_history - 1

\* The entries of a level table that are as close to the level as any entry.
ClosestEntries(level, level_dict) ==
    {i \in 1..Len(level_dict) :
        \A j \in 1..Len(level_dict) :
            Abs(level_dict[i].value - level) <= Abs(level_dict[j].value - level)}

\* The modifier a level selects: of the closest entries the one that comes
\* first in the table, if the table has entries and that key has a text.
SelectedModifier(level, level_dict, modifiers) ==
    LET closest == ClosestEntries(level, level_dict)
    IN  IF closest = {} THEN <<>>
        ELSE LET first == CHOOSE i \in closest : \A j \in closest : i <= j
             IN  IF level_dict[first].key \in modifiers
                 THEN <<level_dict[first].key>> ELSE <<>>

\* C27 (effective system prompt): the system prompt of every AI call is the
\* conversation's custom prompt when it has a non-empty one; otherwise it is
\* the base prompt followed by the tone modifier and the flirt modifier of the
\* table entry whose value is closest to the conversation's level, the first
\* entry of the table among equally close ones.
C27_EffectiveSystemPrompt ==
    (Turned /\ lastTurn.ai_called) =>
        LET conversation == conv[lastTurn.chat]
        IN  lastTurn.ai_prompt =
                IF conversation.system_prompt \notin {NoneVal, ""}
                THEN <<conversation.system_prompt>>
                ELSE <<"base">>
                     \o SelectedModifier(conversation.tone_level, tone_levels,
                                         tone_modifiers)
                     \o SelectedModifier(conversation.flirt_level, flirt_levels,
                                         flirt_modifiers)

\* An AI call without custom prompt whose tone level is equally close to two
\* entries of the tone table, both with a modifier text.
C27_Witness ==
    /\ Turned /\ lastTurn.ai_called
    /\ conv[lastTurn.chat].system_prompt = NoneVal
    /\ LET closest == ClosestEntries(conv[lastTurn.chat].tone_level, tone_levels)
       IN  /\ Cardinality(closest) = 2
           /\ \A i \in closest : tone_levels[i].key \in tone_modifiers
           /\ \E i, j \in closest : tone_levels[i].value # tone_levels[j].value
    /\ Len(lastTurn.ai_prompt) >= 2

IsPrefix(older, newer) ==
    Len(older) <= Len(newer) /\ SubSeq(newer, 1, Len(older)) = older

C29_PendingRestored ==
    (Turned /\ lastTurn.settings # NoSettings /\ ~lastTurn.fms_before) =>
        lastTurn.pending_before # NoneVal

\* The last inbound event found a pending first message and its
\* transmission raised.
FirstSendRaised == Turned /\ lastTurn.pending_before # NoneVal /\ lastTurn.send = "raised"

\* C30 (failed transmission of the pending first message): after an inbound
\* event whose pending first message could not be transmitted because the
\* send raised, first_message_sent is as it was before, the pending slot is
\* still filled, nothing was transmitted and no AI call was made; and when the
\* next inbound event is for the same chat, it finds the same pending message
\* and makes no AI call either.
C30_FailedFirstSendKeepsGate ==
    /\ [](FirstSendRaised =>
            /\ lastTurn.fms_after = lastTurn.fms_before
            /\ lastTurn.pending_after
            /\ lastTurn.transmitted = <<>>
            /\ ~lastTurn.ai_called
            /\ lastTurn.response = NoneVal)
    /\ [][(FirstSendRaised /\ turns' = turns + 1 /\ lastTurn'.chat = lastTurn.chat) =>
            /\ lastTurn'.pending_before = lastTurn.pending_before
            /\ ~lastTurn'.ai_called
            /\ ai_calls' = ai_calls]_vars

\* Two inbound events for a chat with a closed gate are handled; the pending
\* first message could not be transmitted at the first and is offered
\* again at the second, where the transmission raised again.
C30_Witness ==
    /\ FirstSendRaised
    /\ turns >= 2
    /\ ~lastTurn.fms_before
    /\ ~conv[lastTurn.chat].first_message_sent
    /\ sent[lastTurn.chat] = <<>>
    /\ messages[lastTurn.chat] = <<>>
    /\ get_pending_first_message(lastTurn.chat) = lastTurn.pending_before

\* C5 (rate limiting): for every chat, any two events the rate limiter
\* accepted are at least MinSpacing seconds apart, and no more than
\* MessagesPerWindow accepted events lie within CounterWindow seconds of each
\* other (accepted[c] holds the accept times of the last CounterWindow
\* seconds, both ends included).
C5_RateLimiting ==
    \A c \in Chats :
        /\ Len(accepted[c]) <= MessagesPerWindow
        /\ \A i \in 1..(Len(accepted[c]) - 1) :
              accepted[c][i + 1] - accepted[c][i] >= MinSpacing

\* C5 witness: a chat has MessagesPerWindow accepted events inside one
\* window and its next event was rejected by the cap.
C5_Witness ==
    /\ lastCheck.chat # NoneVal /\ ~lastCheck.ok
    /\ lastCheck.counted >= MessagesPerWindow
    /\ Len(accepted[lastCheck.chat]) = MessagesPerWindow

\* C6 (rejection only on a violated dimension), as claimed: an event is
\* rejected only if the previous accepted event of its chat is less than
\* MinSpacing seconds old or MessagesPerWindow events are already counted in
\* the current window; so the first event of a chat, and the first after a
\* window reset, is accepted.
C6_RejectOnlyOnViolation ==
    (lastCheck.chat # NoneVal /\ ~lastCheck.ok) =>
        \/ lastCheck.since_accept # Infinity /\ lastCheck.since_accept < MinSpacing
        \/ lastCheck.counted >= MessagesPerWindow

\* C10 (reconnection), as claimed: a listener task that saw the liveness
\* check fail while the bot was running has not terminated once the session
\* is connected again and the bot is running.
C10_ListenerSurvivesReconnection ==
    \A t \in 1..Len(tasks) :
        (/\ tasks[t].kind = "listener" /\ tasks[t].lost
         /\ is_running /\ logged_in /\ whatsapp_connected)
            => tasks[t].pc # "done"

\* C7 (partial-failure durability): after a turn in which generate_response
\* raised, the turn's inbound message is the one message the turn added, it
\* is the newest entry of get_conversation_history, no assistant message was
\* added and no reply was returned or sent.
C7_PartialFailureDurability ==
    (Turned /\ lastTurn.ai_raised) =>
        LET c == lastTurn.chat
            h == get_conversation_history(conv, messages, c, max_conversation_history)
        IN  /\ Len(messages[c]) = lastTurn.msgs_before + 1
            /\ h # <<>>
            /\ h[Len(h)].role = "user"
            /\ h[Len(h)].content = lastTurn.text
            /\ lastTurn.response = NoneVal
            /\ lastTurn.transmitted = <<>>

\* C7 witness: generate_response raised in the last turn.
C7_Witness == Turned /\ lastTurn.ai_called /\ lastTurn.ai_raised

\* C8 (inbound persisted unconditionally), as claimed: every inbound event
\* handed to the pipeline adds exactly one message with role 'user' to its
\* chat: with the gate closed, on the discharging turn and on the AI path.
C8_InboundAlwaysPersisted ==
    Turned =>
        LET c == lastTurn.chat
            added == SubSeq(messages[c], lastTurn.msgs_before + 1, Len(messages[c]))
        IN  CountRole(added, "user") = 1

\* C9 (settings given with the pending first message), as claimed: an AI call
\* for a chat configured by set_pending_first_message(C, M, t, f, p) uses the
\* system prompt derived from t, f and p.
C9_PendingSettingsTakeEffect ==
    (Turned /\ lastTurn.ai_called /\ lastTurn.settings # NoSettings) =>
        lastTurn.ai_prompt = get_system_prompt(lastTurn.settings.tone_level,
                                               lastTurn.settings.flirt_level,
                                               lastTurn.settings.system_prompt)

====
